---- MODULE Spec2Model ----
(***************************************************************************)
(* Model of the block utilities of the integration gateway                 *)
(* (integration-gateway/utils/blockchain-rust-utils.rs) and of the row to  *)
(* AI-block conversion (domain-management/block.rs).                       *)
(*                                                                         *)
(* Strings (ids, hashes) and u64 timestamps are drawn from small integer   *)
(* ranges.  A HashMap is a function whose DOMAIN is its key set, a Vec is  *)
(* a sequence, and an Option is a sequence of length 0 (None) or 1 (Some). *)
(***************************************************************************)
EXTENDS Integers, Sequences, FiniteSets, TLC

\* ---- bounds ----
MaxLen == 3
MaxId == 2
MaxHash == 2
MaxTimestamp == 3
MaxData == 2

MaxRows == 2
MaxUuid == 2
MaxExchangeId == 2
MaxConversationId == 1

VARIABLES results, call, key_fn, pc, i, by_id, by_hash, by_timestamp, map, groups,
          rows, j, pane_to_ai_blocks, log, ret

utilVars == <<results, call, key_fn, pc, i, by_id, by_hash, by_timestamp, map, groups>>
rowVars == <<rows, j, pane_to_ai_blocks, log, ret>>
vars == <<utilVars, rowVars>>

\* ---- values ----
Ids == 1..MaxId
Hashes == 1..MaxHash
Timestamps == 1..MaxTimestamp

\* struct BlockResult (metadata is folded into the opaque payload `data`)
BlockResult == [id : Ids, hash : Hashes, timestamp : Timestamps, data : 1..MaxData]

Max(S) == CHOOSE x \in S : \A y \in S : y <= x
Elems(s) == {s[n] : n \in 1..Len(s)}

\* Ids, hashes and payloads are opaque to the code, which only compares them
\* for equality (timestamps are ordered: the range query counts through
\* them).  The input batches are therefore enumerated up to renaming: a
\* name is one already used or the next unused one; for payloads, among the
\* records that agree on id, hash and timestamp.
Fresh(used, max) == 1..(IF used = {} THEN 1 ELSE IF Max(used) < max THEN Max(used) + 1 ELSE max)

NextRecords(s) ==
    UNION {
        {[id |-> a, hash |-> h, timestamp |-> t, data |-> d] :
            d \in Fresh({r.data : r \in {x \in Elems(s) :
                            x.id = a /\ x.hash = h /\ x.timestamp = t}}, MaxData)} :
        a \in Fresh({r.id : r \in Elems(s)}, MaxId),
        h \in Fresh({r.hash : r \in Elems(s)}, MaxHash),
        t \in Timestamps }

\* the caller pushes one more record onto the batch it is assembling
AddResult ==
    /\ pc = "input" /\ Len(results) < MaxLen
    /\ \E r \in NextRecords(results) : results' = Append(results, r)
    /\ UNCHANGED <<call, key_fn, pc, i, by_id, by_hash, by_timestamp, map, groups, rowVars>>

\* ---- Option and HashMap primitives ----
None == <<>>
Some(v) == <<v>>

EmptyMap == [k \in {} |-> k]

\* HashMap::insert, or_insert flavour: an existing entry is kept
MapInsertKeepFirst(m, k, v) ==
    [x \in (DOMAIN m) \cup {k} |-> IF x \in DOMAIN m THEN m[x] ELSE v]

\* HashMap::insert: the new value replaces any value stored under the key
MapInsert(m, k, v) ==
    [x \in (DOMAIN m) \cup {k} |-> IF x = k THEN v ELSE m[x]]

\* HashMap::get
MapGet(m, k) == IF k \in DOMAIN m THEN Some(m[k]) ELSE None

\* entry(k).or_insert_with(Vec::new).push(v)
EntryPush(m, k, v) ==
    [x \in (DOMAIN m) \cup {k} |->
        IF x = k THEN (IF k \in DOMAIN m THEN Append(m[k], v) ELSE <<v>>) ELSE m[x]]

\* ---- BlockResultIndex::new, one action per statement of the loop body ----
\* BlockResultIndex::new(results) is entered: the three maps are empty
CallNew ==
    /\ pc = "input"
    /\ call' = "new"
    /\ pc' = "by_hash"
    /\ UNCHANGED <<results, key_fn, i, by_id, by_hash, by_timestamp, map, groups, rowVars>>

InLoop == call = "new" /\ i <= Len(results)

\* by_hash.insert(result.hash, result.hash): the wrong field is stored
IndexByHashWrongField ==
    /\ InLoop /\ pc = "by_hash"
    /\ by_hash' = MapInsert(by_hash, results[i].hash, results[i].hash)
    /\ pc' = "by_timestamp"
    /\ UNCHANGED <<results, call, key_fn, i, by_id, by_timestamp, map, groups, rowVars>>

\* the hash index keeps the first id seen for a hash
IndexByHashKeepFirst ==
    /\ InLoop /\ pc = "by_hash"
    /\ by_hash' = MapInsertKeepFirst(by_hash, results[i].hash, results[i].id)
    /\ pc' = "by_timestamp"
    /\ UNCHANGED <<results, call, key_fn, i, by_id, by_timestamp, map, groups, rowVars>>

IndexByHash ==
    /\ InLoop /\ pc = "by_hash"
    /\ by_hash' = MapInsert(by_hash, results[i].hash, results[i].id)
    /\ pc' = "by_timestamp"
    /\ UNCHANGED <<results, call, key_fn, i, by_id, by_timestamp, map, groups, rowVars>>

IndexByTimestamp ==
    /\ InLoop /\ pc = "by_timestamp"
    /\ by_timestamp' = EntryPush(by_timestamp, results[i].timestamp, results[i].id)
    /\ pc' = "by_id"
    /\ UNCHANGED <<results, call, key_fn, i, by_id, by_hash, map, groups, rowVars>>

\* the secondary entries of a superseded record are retracted on overwrite
Without(s, v) == SelectSeq(s, LAMBDA x : x # v)

IndexByIdRetract ==
    /\ InLoop /\ pc = "by_id"
    /\ LET r == results[i]
           old == MapGet(by_id, r.id)
           stale_ts == old # None /\ old[1].timestamp # r.timestamp
           stale_hash == old # None /\ old[1].hash # r.hash /\ by_hash[old[1].hash] = r.id
       IN  /\ by_timestamp' =
                IF stale_ts
                THEN [by_timestamp EXCEPT ![old[1].timestamp] = Without(@, r.id)]
                ELSE by_timestamp
           /\ by_hash' =
                IF stale_hash
                THEN [h \in (DOMAIN by_hash) \ {old[1].hash} |-> by_hash[h]]
                ELSE by_hash
           /\ by_id' = MapInsert(by_id, r.id, r)
    /\ i' = i + 1
    /\ pc' = "by_hash"
    /\ UNCHANGED <<results, call, key_fn, map, groups, rowVars>>

IndexById ==
    /\ InLoop /\ pc = "by_id"
    /\ by_id' = MapInsert(by_id, results[i].id, results[i])
    /\ i' = i + 1
    /\ pc' = "by_hash"
    /\ UNCHANGED <<results, call, key_fn, by_hash, by_timestamp, map, groups, rowVars>>

\* the loop is exhausted: Self { by_id, by_hash, by_timestamp }
IndexBuilt ==
    /\ call = "new" /\ pc = "by_hash" /\ i > Len(results)
    /\ pc' = "built"
    /\ UNCHANGED <<results, call, key_fn, i, by_id, by_hash, by_timestamp, map, groups, rowVars>>

\* ---- queries on the index (pure functions of self and the arguments) ----
get_by_id(id) == MapGet(by_id, id)

get_by_hash(hash) ==
    LET id == MapGet(by_hash, hash)
    IN  IF id = None THEN None ELSE MapGet(by_id, id[1])

\* ids.iter().filter_map(|id| self.by_id.get(id)).collect()
RECURSIVE Resolve(_, _, _)
Resolve(ids, n, acc) ==
    IF n > Len(ids) THEN acc
    ELSE Resolve(ids, n + 1, acc \o MapGet(by_id, ids[n]))

get_by_timestamp(timestamp) ==
    LET ids == MapGet(by_timestamp, timestamp)
    IN  IF ids = None THEN <<>> ELSE Resolve(ids[1], 1, <<>>)

\* for timestamp in start..=end (an inclusive range: it ends after `end`
\* without computing end + 1 in u64)
RECURSIVE RangeLoop(_, _, _)
RangeLoop(timestamp, end, acc) ==
    IF timestamp > end THEN acc
    ELSE LET ids == MapGet(by_timestamp, timestamp)
         IN  RangeLoop(timestamp + 1, end,
                       IF ids = None THEN acc ELSE Resolve(ids[1], 1, acc))

\* for timestamp in start..end: the upper bound is excluded
get_in_timestamp_range_exclusive(start, end) == RangeLoop(start, end - 1, <<>>)

\* the bounds are put in order before the scan
get_in_timestamp_range_swapped(start, end) ==
    IF start > end THEN RangeLoop(end, start, <<>>) ELSE RangeLoop(start, end, <<>>)

get_in_timestamp_range(start, end) == RangeLoop(start, end, <<>>)

\* ---- convert_results_to_map ----
RECURSIVE ConvertLoop(_, _, _)
ConvertLoop(rs, n, m) ==
    IF n > Len(rs) THEN m
    ELSE ConvertLoop(rs, n + 1, MapInsert(m, rs[n].id, rs[n]))

convert_results_to_map(rs) == ConvertLoop(rs, 1, EmptyMap)

ConvertResultsToMap ==
    /\ pc = "input"
    /\ call' = "convert_results_to_map"
    /\ map' = convert_results_to_map(results)
    /\ pc' = "returned"
    /\ UNCHANGED <<results, key_fn, i, by_id, by_hash, by_timestamp, groups, rowVars>>

\* ---- group_results_by ----
KeyFns == {"id", "hash", "timestamp"}

\* the caller's key function: one of the record's key fields
ApplyKeyFn(f, r) == r[f]

RECURSIVE GroupLoop(_, _, _, _)
GroupLoop(rs, f, n, g) ==
    IF n > Len(rs) THEN g
    ELSE GroupLoop(rs, f, n + 1, EntryPush(g, ApplyKeyFn(f, rs[n]), rs[n]))

\* groups.insert(key, vec![result.clone()]): a group is replaced, not extended
RECURSIVE GroupLoopOverwrite(_, _, _, _)
GroupLoopOverwrite(rs, f, n, g) ==
    IF n > Len(rs) THEN g
    ELSE GroupLoopOverwrite(rs, f, n + 1, MapInsert(g, ApplyKeyFn(f, rs[n]), <<rs[n]>>))

group_results_by_overwrite(rs, f) == GroupLoopOverwrite(rs, f, 1, EmptyMap)

group_results_by(rs, f) == GroupLoop(rs, f, 1, EmptyMap)

GroupResultsBy ==
    /\ pc = "input"
    /\ call' = "group_results_by"
    /\ \E f \in KeyFns :
          /\ key_fn' = f
          /\ groups' = group_results_by(results, f)
    /\ pc' = "returned"
    /\ UNCHANGED <<results, i, by_id, by_hash, by_timestamp, map, rowVars>>

\* ---- block.rs: process_json_output ----
\* A line of text is a sequence of tokens: "ws" is whitespace, "{" and "}"
\* the braces, "kv1" and "kv2" a complete "key": value member, "junk" any
\* text that is not JSON.  A text is a sequence of lines.
Members == {"kv1", "kv2"}

TextPlain == << <<"{", "kv1", "}">> >>
TextNoisy == << <<"junk">>, <<"ws", "{", "kv2", "}">>, <<"junk", "{", "}">> >>
TextPretty == << <<"{">>, <<"ws", "kv1">>, <<"}">> >>
Texts == {TextPlain, TextNoisy, TextPretty}

\* str::trim_start
RECURSIVE trim_start(_)
trim_start(line) ==
    IF line # <<>> /\ Head(line) = "ws" THEN trim_start(Tail(line)) ELSE line

starts_with_brace(line) == LET t == trim_start(line) IN t # <<>> /\ Head(t) = "{"

\* output.lines().filter(..).collect::<String>(): the kept lines, concatenated
RECURSIVE Cleaned(_, _, _)
Cleaned(text, n, acc) ==
    IF n > Len(text) THEN acc
    ELSE Cleaned(text, n + 1, IF starts_with_brace(text[n]) THEN acc \o text[n] ELSE acc)

\* serde_json::from_str: whitespace between tokens is insignificant; the
\* string must be exactly one object.  Ok(value) is Some(set of members).
from_str(str) ==
    LET toks == SelectSeq(str, LAMBDA t : t # "ws")
    IN  IF toks = <<"{", "}">> THEN Some({})
        ELSE IF Len(toks) = 3 /\ toks[1] = "{" /\ toks[2] \in Members /\ toks[3] = "}"
             THEN Some({toks[2]})
        ELSE None

\* serde_json::to_string: the compact form of the value
to_string(value) ==
    IF value = {} THEN <<"{", "}">> ELSE <<"{", CHOOSE m \in value : TRUE, "}">>

process_json_output(output) ==
    LET value == from_str(Cleaned(output, 1, <<>>))
    IN  IF value = None THEN None ELSE Some(to_string(value[1]))

\* AIAgentExchangeId::try_from / AIConversationId::try_from: an identifier
\* string is either well formed (1 and up) or rejected (0)
try_from(s) == IF s = 0 THEN None ELSE Some(s)

\* the input and output columns of a row: both clean, either one malformed
Exchanges == {<<TextPlain, TextNoisy>>, <<TextNoisy, TextPlain>>,
              <<TextPretty, TextPlain>>, <<TextPlain, TextPretty>>}

\* a result row of the query; start_ts and working_directory take no part
\* in the outcome of the conversion
Row == [uuid : 1..MaxUuid, exchange_id : 0..MaxExchangeId,
        conversation_id : 0..MaxConversationId, input : Texts, output : Texts]

\* the row batches, up to renaming of the pane uuids and of the well formed
\* identifiers (0, the malformed identifier, is not renamed)
NextRows(s) ==
    {[uuid |-> u, exchange_id |-> e, conversation_id |-> c,
      input |-> x[1], output |-> x[2]] :
        u \in Fresh({r.uuid : r \in Elems(s)}, MaxUuid),
        e \in {0} \cup Fresh({r.exchange_id : r \in Elems(s)} \ {0}, MaxExchangeId),
        c \in {0} \cup Fresh({r.conversation_id : r \in Elems(s)} \ {0}, MaxConversationId),
        x \in Exchanges}

\* one more row of the query result
AddRow ==
    /\ ret = "input" /\ Len(rows) < MaxRows
    /\ \E r \in NextRows(rows) : rows' = Append(rows, r)
    /\ UNCHANGED <<j, pane_to_ai_blocks, log, ret, utilVars>>

\* convert_results_to_map(results) is entered
CallConvertRows ==
    /\ ret = "input"
    /\ ret' = "running"
    /\ UNCHANGED <<rows, j, pane_to_ai_blocks, log, utilVars>>

\* the closure of the loop body up to the PersistedAIBlock: Some(block) or
\* None when one of the `?` operators returns the error
TryBlock(row) ==
    LET input == process_json_output(row.input)
        output == process_json_output(row.output)
        exchange_id == try_from(row.exchange_id)
        conversation_id == try_from(row.conversation_id)
    IN  IF input = None \/ output = None THEN None
        ELSE IF exchange_id = None THEN None
        ELSE IF from_str(output[1]) = None THEN None
        ELSE IF conversation_id = None THEN None
        ELSE IF from_str(input[1]) = None THEN None
        ELSE Some([exchange_id |-> exchange_id[1],
                   session_uuid |-> row.uuid,
                   output |-> from_str(output[1])[1],
                   conversation_id |-> conversation_id[1],
                   input |-> from_str(input[1])[1]])

RowLoop == ret = "running" /\ j <= Len(rows)

\* the closure returned Ok(()): the block is pushed under its pane
ConvertRow ==
    /\ RowLoop
    /\ TryBlock(rows[j]) # None
    /\ pane_to_ai_blocks' = EntryPush(pane_to_ai_blocks, rows[j].uuid, TryBlock(rows[j])[1])
    /\ j' = j + 1
    /\ UNCHANGED <<rows, log, ret, utilVars>>

\* the error is propagated with `?` instead of being logged
SkipRowAbort ==
    /\ RowLoop
    /\ TryBlock(rows[j]) = None
    /\ ret' = "Err"
    /\ UNCHANGED <<rows, j, pane_to_ai_blocks, log, utilVars>>

\* the closure returned Err(error): log::warn! and go on with the next row
SkipRow ==
    /\ RowLoop
    /\ TryBlock(rows[j]) = None
    /\ log' = Append(log, j)
    /\ j' = j + 1
    /\ UNCHANGED <<rows, pane_to_ai_blocks, ret, utilVars>>

\* Ok(pane_to_ai_blocks)
ReturnRows ==
    /\ ret = "running" /\ j > Len(rows)
    /\ ret' = "Ok"
    /\ UNCHANGED <<rows, j, pane_to_ai_blocks, log, utilVars>>

\* ---- specifications ----
RowsIdle ==
    /\ rows = <<>>
    /\ j = 1
    /\ pane_to_ai_blocks = EmptyMap
    /\ log = <<>>
    /\ ret = "idle"

Init ==
    /\ results = <<>>
    /\ call = "none"
    /\ key_fn = "id"
    /\ pc = "input"
    /\ i = 1
    /\ by_id = EmptyMap
    /\ by_hash = EmptyMap
    /\ by_timestamp = EmptyMap
    /\ map = EmptyMap
    /\ groups = EmptyMap
    /\ RowsIdle

Next ==
    \/ AddResult
    \/ CallNew
    \/ IndexByHash
    \/ IndexByTimestamp
    \/ IndexById
    \/ IndexBuilt
    \/ ConvertResultsToMap
    \/ GroupResultsBy

Spec == Init /\ [][Next]_vars

InitRows ==
    /\ results = <<>>
    /\ call = "none"
    /\ key_fn = "id"
    /\ pc = "idle"
    /\ i = 1
    /\ by_id = EmptyMap
    /\ by_hash = EmptyMap
    /\ by_timestamp = EmptyMap
    /\ map = EmptyMap
    /\ groups = EmptyMap
    /\ rows = <<>>
    /\ j = 1
    /\ pane_to_ai_blocks = EmptyMap
    /\ log = <<>>
    /\ ret = "input"

RowsNext ==
    \/ AddRow
    \/ CallConvertRows
    \/ ConvertRow
    \/ SkipRow
    \/ ReturnRows

SpecRows == InitRows /\ [][RowsNext]_vars

Built == call = "new" /\ pc = "built"

TypeOK ==
    /\ Elems(results) \subseteq BlockResult
    /\ Len(results) <= MaxLen
    /\ i \in 1..(MaxLen + 1)
    /\ DOMAIN by_id \subseteq Ids
    /\ DOMAIN by_hash \subseteq Hashes
    /\ DOMAIN by_timestamp \subseteq Timestamps
    /\ Elems(rows) \subseteq Row
    /\ Len(rows) <= MaxRows
    /\ DOMAIN pane_to_ai_blocks \subseteq 1..MaxUuid

\* ---- vocabulary of the properties ----
Positions == 1..Len(results)
QueryIds == 0..(MaxId + 1)
QueryHashes == 0..(MaxHash + 1)
QueryTimestamps == 0..(MaxTimestamp + 1)

BatchIds == {results[n].id : n \in Positions}
BatchHashes == {results[n].hash : n \in Positions}
BatchTimestamps == {results[n].timestamp : n \in Positions}

LastWithId(id) == Max({n \in Positions : results[n].id = id})
LastWithHash(hash) == Max({n \in Positions : results[n].hash = hash})

Count(s, x) == Cardinality({n \in 1..Len(s) : s[n] = x})

ConvertReturned == call = "convert_results_to_map" /\ pc = "returned"
GroupReturned == call = "group_results_by" /\ pc = "returned"

\* C1: after BlockResultIndex::new, get_by_id(r.id) is the last record of the
\* batch with r's id, for every record r of the batch; convert_results_to_map
\* returns the same id -> last-record mapping; both hold one entry per
\* distinct id of the batch.
C1_PrimaryCompleteness ==
    /\ Built =>
        /\ \A n \in Positions :
              get_by_id(results[n].id) = Some(results[LastWithId(results[n].id)])
        /\ Cardinality(DOMAIN by_id) = Cardinality(BatchIds)
    /\ ConvertReturned =>
        /\ \A n \in Positions :
              MapGet(map, results[n].id) = Some(results[LastWithId(results[n].id)])
        /\ Cardinality(DOMAIN map) = Cardinality(BatchIds)

C1_Witness ==
    /\ Built
    /\ \E m, n \in Positions :
          /\ m < n
          /\ results[m].id = results[n].id
          /\ results[m] # results[n]
          /\ n = LastWithId(results[n].id)
          /\ get_by_id(results[m].id) = Some(results[n])
    /\ Cardinality(DOMAIN by_id) < Len(results)

\* the still-current records with timestamp t, in input order
RECURSIVE CurrentAt(_, _, _)
CurrentAt(t, n, acc) ==
    IF n > Len(results) THEN acc
    ELSE CurrentAt(t, n + 1,
            IF n = LastWithId(results[n].id) /\ results[n].timestamp = t
            THEN Append(acc, results[n]) ELSE acc)

\* C2: get_by_timestamp(t) returns exactly the still-current records whose
\* stored timestamp is t, without extras, omissions or repeats, in input
\* order.
C2_TimestampGrouping ==
    Built => \A t \in QueryTimestamps : get_by_timestamp(t) = CurrentAt(t, 1, <<>>)

\* C3 (I3): the id of every record of the primary store occurs exactly once
\* in the timestamp bucket of that record's timestamp.
C3_BucketExactlyOnce ==
    Built => \A id \in DOMAIN by_id :
                /\ by_id[id].timestamp \in DOMAIN by_timestamp
                /\ Count(by_timestamp[by_id[id].timestamp], id) = 1

\* C4: the hash index maps every hash of the batch to the id of the last
\* record with that hash; for a record r whose hash no later record
\* carries, get_by_hash(r.hash) is present, has r's id and is the last
\* record of the batch with that id.
C4_HashLastWriterWins ==
    Built =>
        /\ \A h \in BatchHashes :
              MapGet(by_hash, h) = Some(results[LastWithHash(h)].id)
        /\ \A n \in Positions :
              (\A m \in Positions : m > n => results[m].hash # results[n].hash) =>
                  /\ get_by_hash(results[n].hash) # None
                  /\ get_by_hash(results[n].hash)[1].id = results[n].id
                  /\ get_by_hash(results[n].hash) =
                        Some(results[LastWithId(results[n].id)])

C4_Witness ==
    /\ Built
    /\ \E m, n \in Positions :
          /\ m < n
          /\ results[m].hash = results[n].hash
          /\ results[m].id # results[n].id
          /\ n = LastWithHash(results[n].hash)
          /\ get_by_hash(results[m].hash) = Some(results[n])

RECURSIVE SumOver(_, _, _)
SumOver(F(_), from, to) == IF from > to THEN 0 ELSE F(from) + SumOver(F, from + 1, to)

\* C5: get_in_timestamp_range(start, end) holds every record (of either side;
\* any other record occurs in neither) as many times
\* as the results of get_by_timestamp(t) for t in [start, end] hold it
\* together; for start > end it is the empty sequence.
C5_RangeIsUnionOfPoints ==
    Built => \A start, end \in QueryTimestamps :
        /\ \A x \in Elems(get_in_timestamp_range(start, end))
                        \cup UNION {Elems(get_by_timestamp(t)) : t \in start..end} :
              LET InPoint(t) == Count(get_by_timestamp(t), x)
              IN  Count(get_in_timestamp_range(start, end), x) = SumOver(InPoint, start, end)
        /\ start > end => get_in_timestamp_range(start, end) = <<>>

C5_Witness ==
    /\ Built
    /\ \E start, end \in Timestamps :
          /\ start < end
          /\ get_by_timestamp(start) # <<>>
          /\ get_by_timestamp(end) # <<>>
          /\ get_in_timestamp_range(start, end) # get_by_timestamp(start)
          /\ get_in_timestamp_range(start, end) # get_by_timestamp(end)
          /\ get_in_timestamp_range(end, start) = <<>>

NoDangling ==
    /\ \A h \in DOMAIN by_hash : by_hash[h] \in DOMAIN by_id
    /\ \A t \in DOMAIN by_timestamp : Elems(by_timestamp[t]) \subseteq DOMAIN by_id

RECURSIVE SumLen(_, _)
SumLen(g, keys) ==
    IF keys = {} THEN 0
    ELSE LET k == CHOOSE x \in keys : TRUE IN Len(g[k]) + SumLen(g, keys \ {k})

\* C7: group_results_by returns one group per distinct key of the input and
\* no empty group; the group of key k is the subsequence of the input
\* records with key k, in input order, every occurrence kept; the group
\* sizes sum to the input length.
C7_GroupPartitions ==
    GroupReturned =>
        /\ DOMAIN groups = {ApplyKeyFn(key_fn, results[n]) : n \in Positions}
        /\ \A k \in DOMAIN groups :
              /\ groups[k] # <<>>
              /\ groups[k] = SelectSeq(results, LAMBDA r : ApplyKeyFn(key_fn, r) = k)
        /\ SumLen(groups, DOMAIN groups) = Len(results)

C7_Witness ==
    /\ GroupReturned
    /\ key_fn = "timestamp"
    /\ Cardinality(DOMAIN groups) = 2
    /\ \E k \in DOMAIN groups :
          /\ Len(groups[k]) = 2
          /\ groups[k][1] = groups[k][2]

OptionOf(S) == {None} \cup {Some(x) : x \in S}

\* C8: a key that occurs in no input record is a miss: get_by_id and
\* get_by_hash return None, get_by_timestamp and get_in_timestamp_range
\* (over an interval holding no input timestamp) return the empty sequence;
\* every query result is an Option or a Vec of records, never an error.
C8_UnknownKeyMiss ==
    Built =>
        /\ \A id \in QueryIds :
              /\ get_by_id(id) \in OptionOf(BlockResult)
              /\ id \notin BatchIds => get_by_id(id) = None
        /\ \A h \in QueryHashes :
              /\ get_by_hash(h) \in OptionOf(BlockResult)
              /\ h \notin BatchHashes => get_by_hash(h) = None
        /\ \A t \in QueryTimestamps :
              /\ Elems(get_by_timestamp(t)) \subseteq BlockResult
              /\ t \notin BatchTimestamps => get_by_timestamp(t) = <<>>
        /\ \A start, end \in QueryTimestamps :
              /\ Elems(get_in_timestamp_range(start, end)) \subseteq BlockResult
              /\ (start..end) \cap BatchTimestamps = {} =>
                    get_in_timestamp_range(start, end) = <<>>

C8_Witness ==
    /\ Built
    /\ results # <<>>
    /\ \E id \in Ids : id \notin BatchIds /\ get_by_id(id) = None
    /\ \E h \in Hashes : h \notin BatchHashes /\ get_by_hash(h) = None
    /\ \E t \in Timestamps : t \notin BatchTimestamps /\ get_by_timestamp(t) = <<>>
    /\ \E start, end \in QueryTimestamps :
          /\ start > end
          /\ (end..start) \cap BatchTimestamps # {}
          /\ get_in_timestamp_range(start, end) = <<>>

\* C9: an earlier record e whose id a later record repeats keeps its
\* secondary entries: the id stays in the bucket of e.timestamp, and, when
\* no record after e carries e.hash, the hash index still maps e.hash to
\* the id; both queries resolve the id to the last record of the batch with
\* that id, and get_by_id still resolves.
C9_NoRetraction ==
    Built => \A m, n \in Positions :
        (m < n /\ results[m].id = results[n].id) =>
            LET e == results[m]
                last == results[LastWithId(e.id)]
            IN  /\ e.timestamp \in DOMAIN by_timestamp
                /\ e.id \in Elems(by_timestamp[e.timestamp])
                /\ last \in Elems(get_by_timestamp(e.timestamp))
                /\ (\A k \in Positions : k > m => results[k].hash # e.hash) =>
                      /\ MapGet(by_hash, e.hash) = Some(e.id)
                      /\ get_by_hash(e.hash) = Some(last)
                /\ get_by_id(e.id) = Some(last)

C9_Witness ==
    /\ Built
    /\ \E m, n \in Positions :
          /\ m < n
          /\ results[m].id = results[n].id
          /\ n = LastWithId(results[n].id)
          /\ results[m].hash \notin {results[k].hash : k \in (m + 1)..Len(results)}
          /\ results[m].timestamp # results[n].timestamp
          /\ get_by_hash(results[m].hash) = Some(results[n])
          /\ results[n] \in Elems(get_by_timestamp(results[m].timestamp))

\* the blocks of the rows of pane uuid that convert, in input order
RECURSIVE BlocksOf(_, _, _)
BlocksOf(uuid, n, acc) ==
    IF n > Len(rows) THEN acc
    ELSE BlocksOf(uuid, n + 1,
            IF rows[n].uuid = uuid THEN acc \o TryBlock(rows[n]) ELSE acc)

\* C10: the row conversion never returns Err and never stops before the
\* last row; when it returns, the map holds for each pane uuid exactly the
\* blocks of the rows of that uuid that converted, in input order, and no
\* entry for a pane none of whose rows converted; each failed row is logged.
C10_FaultIsolation ==
    /\ ret # "Err"
    /\ ret = "Ok" =>
        /\ j = Len(rows) + 1
        /\ \A uuid \in 1..MaxUuid :
              IF BlocksOf(uuid, 1, <<>>) = <<>>
              THEN uuid \notin DOMAIN pane_to_ai_blocks
              ELSE MapGet(pane_to_ai_blocks, uuid) = Some(BlocksOf(uuid, 1, <<>>))
        /\ Elems(log) = {n \in 1..Len(rows) : TryBlock(rows[n]) = None}

C10_Witness ==
    /\ ret = "Ok"
    /\ Len(rows) = 2
    /\ log = <<1>>
    /\ rows[1].uuid = rows[2].uuid
    /\ DOMAIN pane_to_ai_blocks = {rows[2].uuid}
    /\ Len(pane_to_ai_blocks[rows[2].uuid]) = 1
====
